---------------------------- MODULE Spec2Model ----------------------------
(***************************************************************************)
(* A model of etn/networks.py: the cyclic padding helpers (_pad1d, _pad2d, *)
(* _cyclic_pad), the soft-argmax reduction _centroid, and the two pose     *)
(* prediction heads (EquivariantPosePredictor, DirectPosePredictor).       *)
(*                                                                         *)
(* Tensors are modelled by their spatial axes only (batch and channel are  *)
(* carried along unchanged by every operation modelled here): a tensor     *)
(* with one spatial axis is a sequence, a tensor with two spatial axes is  *)
(* a sequence of rows.  Axis 2 is the outer axis, axis 3 the inner one.    *)
(* Arithmetic is exact (real) arithmetic: a rational is a pair <<n, d>>    *)
(* with d > 0, and sines and cosines are exact elements of Q(sqrt 2,       *)
(* sqrt 3).  Rounding of float32 is not modelled.                          *)
(***************************************************************************)
EXTENDS Integers, Sequences, FiniteSets

VARIABLES call, pc, head, err, xshape, feat, deltas, pose, heatmaps

vars == <<call, pc, head, err, xshape, feat, deltas, pose, heatmaps>>

headVars == <<pc, head, err, xshape, feat, deltas, pose, heatmaps>>

-----------------------------------------------------------------------------
(* Bounds of the model.                                                    *)

MaxDim == 2

MaxPad == 3

-----------------------------------------------------------------------------
(* Results of a call: a value, or the error the call raised.               *)

Ok(v) == [err |-> "", val |-> v]

Raise(e) == [err |-> e, val |-> <<>>]

IsOk(r) == r.err = ""

-----------------------------------------------------------------------------
(* Tensor primitives of the host library, as used by the module.           *)

\* x.shape[axis]
Shape(x, axis) == IF axis = 2 THEN Len(x) ELSE Len(x[1])

\* x.narrow(axis, start, length) is defined when the window lies in the axis
\* (a negative start counts from the end).
NarrowOk(x, axis, start, length) ==
    LET size == Shape(x, axis)
        s == IF start < 0 THEN start + size ELSE start
    IN  /\ length >= 0
        /\ s >= 0
        /\ s + length <= size

Narrow(x, axis, start, length) ==
    LET size == Shape(x, axis)
        s == IF start < 0 THEN start + size ELSE start
    IN  IF axis = 2
        THEN SubSeq(x, s + 1, s + length)
        ELSE [r \in DOMAIN x |-> SubSeq(x[r], s + 1, s + length)]

\* torch.cat([a, b], axis)
Cat(a, b, axis) ==
    IF axis = 2 THEN a \o b ELSE [r \in DOMAIN a |-> a[r] \o b[r]]

\* The entry an index along a padded axis is read from: an index into the
\* axis, or 0 for a cell filled with the constant 0.
PadIndex(j, p, n, mode) ==
    LET i == j - p
    IN  IF i >= 1 /\ i <= n THEN i
        ELSE IF mode = "constant" THEN 0
        ELSE IF mode = "replicate" THEN (IF i < 1 THEN 1 ELSE n)
        ELSE (IF i < 1 THEN 2 - i ELSE 2 * n - i)

PadSeq(s, l, r, mode, zero) ==
    [j \in 1..(Len(s) + l + r) |->
        LET i == PadIndex(j, l, Len(s), mode)
        IN  IF i = 0 THEN zero ELSE s[i]]

\* F.pad(x, pads, mode) for the modes 'constant', 'reflect' and 'replicate'.
\* pads = (left, right) pads the last axis of a tensor with one spatial axis;
\* pads = (left, right, top, bottom) pads axis 3 and then axis 2 of a tensor
\* with two.  Reflection needs every amount to be smaller than its axis;
\* constant and replicate padding accept any amount.
F_pad(x, pads, mode) ==
    IF Len(pads) = 2
    THEN IF mode = "reflect" /\ (pads[1] >= Len(x) \/ pads[2] >= Len(x))
         THEN Raise("RuntimeError")
         ELSE Ok(PadSeq(x, pads[1], pads[2], mode, 0))
    ELSE LET w == Len(x[1])
             rows == [r \in DOMAIN x |-> PadSeq(x[r], pads[1], pads[2], mode, 0)]
             zero == [c \in 1..(w + pads[1] + pads[2]) |-> 0]
         IN  IF mode = "reflect"
                /\ (\/ pads[1] >= w \/ pads[2] >= w
                    \/ pads[3] >= Len(x) \/ pads[4] >= Len(x))
             THEN Raise("RuntimeError")
             ELSE Ok(PadSeq(rows, pads[3], pads[4], mode, zero))

-----------------------------------------------------------------------------
(* Cyclic padding (networks.py, lines 57-138).  A pad amount is an int,    *)
(* written <<p>>, or a pair <<left, right>>; a mode is a string or None,   *)
(* written <<m>> (None is "None"), or a pair <<wmode, hmode>>.             *)

\* _cyclic_pad with the two wrap blocks exchanged: the head of the input is
\* put before it and its tail after it.
CyclicPadSwapped(x, pad0, axis) ==
    LET pad == IF Len(pad0) = 1 THEN <<pad0[1], pad0[1]>> ELSE pad0
        size == Shape(x, axis)
        left == Narrow(x, axis, 0, pad[1])
        right == Narrow(x, axis, size - pad[2], pad[2])
    IN  IF pad[1] = 0 /\ pad[2] = 0 THEN Ok(x)
        ELSE IF pad[1] > size \/ pad[2] > size THEN Raise("RuntimeError")
        ELSE Ok(Cat(Cat(left, x, axis), right, axis))

\* _cyclic_pad that cuts an amount longer than the axis down to the axis
\* instead of failing.
CyclicPadClamped(x, pad0, axis) ==
    LET size == Shape(x, axis)
        Min(a) == IF a > size THEN size ELSE a
        pad == IF Len(pad0) = 1 THEN <<Min(pad0[1]), Min(pad0[1])>>
               ELSE <<Min(pad0[1]), Min(pad0[2])>>
        left == Narrow(x, axis, 0, pad[2])
        right == Narrow(x, axis, size - pad[1], pad[1])
    IN  Ok(Cat(Cat(right, x, axis), left, axis))

_cyclic_pad(x, pad0, axis) ==
    LET pad == IF Len(pad0) = 1 THEN <<pad0[1], pad0[1]>> ELSE pad0
        size == Shape(x, axis)
        left == Narrow(x, axis, 0, pad[2])
        right == Narrow(x, axis, size - pad[1], pad[1])
    IN  IF pad[1] = 0 /\ pad[2] = 0 THEN Ok(x)
        ELSE IF pad[2] > 0 /\ ~NarrowOk(x, axis, 0, pad[2])
        THEN Raise("RuntimeError")
        ELSE IF pad[1] > 0 /\ ~NarrowOk(x, axis, size - pad[1], pad[1])
        THEN Raise("RuntimeError")
        ELSE IF pad[1] = 0 THEN Ok(Cat(x, left, axis))
        ELSE IF pad[2] = 0 THEN Ok(Cat(right, x, axis))
        ELSE Ok(Cat(Cat(right, x, axis), left, axis))

_pad1d(x, pad, mode) ==
    IF mode = "cyclic" THEN _cyclic_pad(x, <<pad>>, 2)
    ELSE IF mode # "None" THEN F_pad(x, <<pad, pad>>, mode)
    ELSE Ok(x)

\* The second half of _pad2d (lines 107-112), applied to the outcome of the
\* first: an error raised by the first half is the outcome of the call.
Pad2dH(r, hpad, hmode) ==
    IF ~IsOk(r) THEN r
    ELSE IF hmode = "cyclic" THEN _cyclic_pad(r.val, <<hpad>>, 2)
    ELSE IF hmode # "None" THEN F_pad(r.val, <<0, 0, hpad, hpad>>, hmode)
    ELSE r

_pad2d(x, pad0, mode0) ==
    LET pad == IF Len(pad0) = 1 THEN <<pad0[1], pad0[1]>> ELSE pad0
        mode == IF Len(mode0) = 1 /\ mode0[1] # "None"
                THEN <<mode0[1], mode0[1]>> ELSE mode0
        wmode == mode[1]
        hmode == mode[2]
        wpad == pad[1]
        hpad == pad[2]
        outw == IF wmode = "cyclic" THEN _cyclic_pad(x, <<wpad>>, 3)
                ELSE IF wmode # "None" THEN F_pad(x, <<wpad, wpad, 0, 0>>, wmode)
                ELSE Ok(x)
    IN  \* "wmode, hmode = mode" cannot unpack None
        IF Len(mode) = 1 THEN Raise("TypeError")
        ELSE Pad2dH(outw, hpad, hmode)

-----------------------------------------------------------------------------
(* Calls of the padding helpers on bounded inputs.                         *)

\* Two values tell any two entries of a tensor apart.
Values == {1, 2}

Tensors1 == UNION {[1..n -> Values] : n \in 1..MaxDim}

Tensors2 ==
    UNION {[1..h -> [1..w -> Values]] : <<h, w>> \in (1..MaxDim) \X (1..MaxDim)}

Modes == {"None", "constant", "reflect", "replicate", "cyclic"}

PadArgs ==
    {<<p>> : p \in 0..MaxPad} \cup {<<l, r>> : <<l, r>> \in (0..MaxPad) \X (0..MaxPad)}

ModeArgs == {<<m>> : m \in Modes} \cup {<<wm, hm>> : <<wm, hm>> \in Modes \X Modes}

Pending == [err |-> "pending", val |-> <<>>]

NoCall == [fn |-> "", x |-> <<>>, pad |-> <<>>, mode |-> <<>>, axis |-> 0,
           out |-> Pending]

HeadIdle ==
    /\ pc = "idle"
    /\ head = [cls |-> "none"]
    /\ err = ""
    /\ xshape = <<>>
    /\ feat = <<>>
    /\ deltas = <<>>
    /\ pose = <<>>
    /\ heatmaps = <<>>

\* The calls made: the function, its arguments, and its outcome once made.
PadRequest(fn, x, pad, mode, axis) ==
    call = [fn |-> fn, x |-> x, pad |-> pad, mode |-> mode, axis |-> axis,
            out |-> Pending]

CyclicPadCall ==
    /\ call.fn = "_cyclic_pad" /\ call.out = Pending
    /\ call' = [call EXCEPT !.out = _cyclic_pad(call.x, call.pad, call.axis)]
    /\ UNCHANGED headVars

Pad1dCall ==
    /\ call.fn = "_pad1d" /\ call.out = Pending
    /\ call' = [call EXCEPT !.out = _pad1d(call.x, call.pad[1], call.mode[1])]
    /\ UNCHANGED headVars

Pad2dCall ==
    /\ call.fn = "_pad2d" /\ call.out = Pending
    /\ call' = [call EXCEPT !.out = _pad2d(call.x, call.pad, call.mode)]
    /\ UNCHANGED headVars

InitPad ==
    /\ HeadIdle
    /\ \/ \E x \in Tensors1, pad \in PadArgs :
             PadRequest("_cyclic_pad", x, pad, <<"cyclic">>, 2)
       \/ \E x \in Tensors2, pad \in PadArgs, axis \in {2, 3} :
             PadRequest("_cyclic_pad", x, pad, <<"cyclic">>, axis)
       \/ \E x \in Tensors1, p \in 0..MaxPad, m \in Modes :
             PadRequest("_pad1d", x, <<p>>, <<m>>, 2)
       \/ \E x \in Tensors2, pad \in PadArgs, mode \in ModeArgs :
             PadRequest("_pad2d", x, pad, mode, 0)

NextPad == CyclicPadCall \/ Pad1dCall \/ Pad2dCall

SpecPad == InitPad /\ [][NextPad]_vars

-----------------------------------------------------------------------------
(* Exact arithmetic.  A rational is <<n, d>> with d > 0, in lowest terms.  *)
(* A value known up to an open interval is [lo |-> r, hi |-> s]: the value *)
(* is r when r = s, and lies strictly between r and s otherwise.           *)

Abs(n) == IF n < 0 THEN -n ELSE n

RECURSIVE GCD(_, _)
GCD(a, b) == IF b = 0 THEN a ELSE GCD(b, a % b)

Rat(n, d) ==
    LET g == GCD(Abs(n), Abs(d))
        sg == IF d < 0 THEN -1 ELSE 1
    IN  <<(sg * n) \div g, (sg * d) \div g>>

RAdd(p, q) == Rat(p[1] * q[2] + q[1] * p[2], p[2] * q[2])

RNeg(p) == <<-p[1], p[2]>>

RMul(p, q) == Rat(p[1] * q[1], p[2] * q[2])

RDivInt(p, k) == Rat(p[1], p[2] * k)

RLess(p, q) == p[1] * q[2] < q[1] * p[2]

RLeq(p, q) == p[1] * q[2] <= q[1] * p[2]

Exactly(r) == [lo |-> r, hi |-> r]

Between(r, s) == [lo |-> r, hi |-> s]

\* v + r, for a value v and a rational r
VAdd(v, r) == [lo |-> RAdd(v.lo, r), hi |-> RAdd(v.hi, r)]

\* The value v lies in the closed interval [r, s].
VWithin(v, r, s) == RLeq(r, v.lo) /\ RLeq(v.hi, s)

(* An element a + b*sqrt(2) + c*sqrt(3) + d*sqrt(6) of Q(sqrt 2, sqrt 3)   *)
(* with integer coordinates is <<a, b, c, d>>.                             *)

FZero == <<0, 0, 0, 0>>

FAdd(p, q) == [i \in 1..4 |-> p[i] + q[i]]

FScale(k, p) == [i \in 1..4 |-> k * p[i]]

\* The sign of a + b*sqrt(2)
Sgn2(a, b) ==
    IF a = 0 /\ b = 0 THEN 0
    ELSE IF a >= 0 /\ b >= 0 THEN 1
    ELSE IF a <= 0 /\ b <= 0 THEN -1
    ELSE IF a > 0 THEN (IF a * a > 2 * b * b THEN 1 ELSE -1)
    ELSE (IF 2 * b * b > a * a THEN 1 ELSE -1)

\* The sign of p = P + sqrt(3)*Q, with P = a + b*sqrt(2) and Q = c + d*sqrt(2):
\* when P and Q differ in sign, the sign of P*P - 3*Q*Q decides.
FSgn(p) ==
    LET sp == Sgn2(p[1], p[2])
        sq == Sgn2(p[3], p[4])
        sd == Sgn2(p[1] * p[1] + 2 * p[2] * p[2] - 3 * p[3] * p[3] - 6 * p[4] * p[4],
                   2 * p[1] * p[2] - 6 * p[3] * p[4])
    IN  IF sq = 0 THEN sp
        ELSE IF sp = 0 THEN sq
        ELSE IF sp = sq THEN sp
        ELSE IF sd > 0 THEN sp ELSE sq

\* 4*cos(t*pi/12) for t in 0..6
CosTable ==
    <<(<<0, 1, 0, 1>>), (<<0, 0, 2, 0>>), (<<0, 2, 0, 0>>), (<<2, 0, 0, 0>>),
      (<<0, -1, 0, 1>>), FZero>>

\* 4*cos(t*pi/12) and 4*sin(t*pi/12) for an integer t
Cos12(t) ==
    LET m == t % 24
        r == IF m > 12 THEN 24 - m ELSE m
    IN  IF r = 0 THEN <<4, 0, 0, 0>>
        ELSE IF r = 12 THEN <<-4, 0, 0, 0>>
        ELSE IF r <= 6 THEN CosTable[r]
        ELSE FScale(-1, CosTable[12 - r])

Sin12(t) == Cos12(t - 6)

\* The angle q*pi, q rational, is a multiple of pi/12.
ExactAngle(q) == (12 * q[1]) % q[2] = 0

\* torch.cos and torch.sin of the angle q*pi, times 4
Cos(q) == Cos12((12 * q[1]) \div q[2])

Sin(q) == Sin12((12 * q[1]) \div q[2])

\* torch.atan2(y, x).div(np.pi), to the resolution of a quarter turn: the
\* axes are exact, atan2(0, 0) is 0, and inside a quadrant the value lies
\* strictly between the quadrant's ends.
Atan2OverPi(y, x) ==
    LET sy == FSgn(y)
        sx == FSgn(x)
    IN  IF sy = 0 THEN (IF sx >= 0 THEN Exactly(<<0, 1>>) ELSE Exactly(<<1, 1>>))
        ELSE IF sy > 0
        THEN (IF sx > 0 THEN Between(<<0, 1>>, <<1, 2>>)
              ELSE IF sx = 0 THEN Exactly(<<1, 2>>)
              ELSE Between(<<1, 2>>, <<1, 1>>))
        ELSE (IF sx > 0 THEN Between(<<-1, 2>>, <<0, 1>>)
              ELSE IF sx = 0 THEN Exactly(<<-1, 2>>)
              ELSE Between(<<-1, 1>>, <<-1, 2>>))

-----------------------------------------------------------------------------
(* Pose prediction (networks.py, lines 353-365).  A heatmap is the         *)
(* sequence of its integer weights w: bin i holds the mass w[i] / Mass(w). *)

RECURSIVE SumTo(_, _)
SumTo(f, n) == IF n = 0 THEN 0 ELSE f[n] + SumTo(f, n - 1)

Mass(heatmap) == SumTo(heatmap, Len(heatmap))

RECURSIVE FSumTo(_, _)
FSumTo(f, n) == IF n = 0 THEN FZero ELSE FAdd(f[n], FSumTo(f, n - 1))

\* rnge with line 355 missing: the bins are left uncentred
RngeUncentred(n, step) == [i \in 1..n |-> RMul(<<i - 1, 1>>, step)]

\* rnge after lines 354-355: arange(N)*step, less half of its last entry.
\* Entry i of the model is entry i - 1 of the code.
Rnge(n, step) ==
    LET last == RMul(<<n - 1, 1>>, step)
    IN  [i \in 1..n |-> RAdd(RMul(<<i - 1, 1>>, step), RNeg(RDivInt(last, 2)))]

\* The common denominator of the entries of rnge
RECURSIVE Lcm(_, _)
Lcm(f, n) ==
    IF n = 0 THEN 1
    ELSE LET m == Lcm(f, n - 1) IN (m * f[n][2]) \div GCD(m, f[n][2])

\* Lines 357-365: the reduction of the heatmap over the coordinates rnge.
\* x_c and y_c are kept up to the positive factor 4 * Mass(heatmap), which
\* changes neither their signs nor atan2.
Reduce(heatmap, rnge, periodic) ==
    LET n == Len(heatmap)
        den == Lcm(rnge, n)
        x_c == FSumTo([i \in 1..n |-> FScale(heatmap[i], Cos(rnge[i]))], n)
        y_c == FSumTo([i \in 1..n |-> FScale(heatmap[i], Sin(rnge[i]))], n)
    IN  IF periodic THEN Atan2OverPi(y_c, x_c)
        ELSE Exactly(Rat(SumTo([i \in 1..n |->
                 heatmap[i] * rnge[i][1] * (den \div rnge[i][2])], n),
                 den * Mass(heatmap)))

\* _centroid that centres the bins at their first entry, not at the middle
CentroidOffCentre(heatmap, step, periodic) ==
    Reduce(heatmap, [i \in 1..Len(heatmap) |-> RMul(<<i - 1, 1>>, step)], periodic)

\* _centroid that takes the linear mean whatever the periodic flag
CentroidLinear(heatmap, step, periodic) ==
    Reduce(heatmap, Rnge(Len(heatmap), step), FALSE)

_centroid(heatmap, step, periodic) ==
    Reduce(heatmap, Rnge(Len(heatmap), step), periodic)

-----------------------------------------------------------------------------
(* Calls of _centroid on bounded inputs: every heatmap of up to MaxBins    *)
(* bins with weights up to MaxWeight, every step that is a multiple of 1/6 *)
(* up to MaxStep sixths (the bin angles are then multiples of pi/12).      *)

MaxBins == 5

MaxWeight == 2

MaxStep == 12

Heatmaps(n) == {w \in [1..n -> 0..MaxWeight] : \E i \in 1..n : w[i] > 0}

Steps == {Rat(d, 6) : d \in 1..MaxStep}

CentroidCall ==
    /\ call.fn = "_centroid" /\ call.out = Pending
    /\ call' = [call EXCEPT !.out = Ok(_centroid(call.heatmap, call.step, call.periodic))]
    /\ UNCHANGED headVars

InitCentroid ==
    /\ HeadIdle
    /\ \E n \in 1..MaxBins :
          \E w \in Heatmaps(n), step \in Steps, periodic \in BOOLEAN :
             call = [fn |-> "_centroid", heatmap |-> w, step |-> step,
                     periodic |-> periodic, out |-> Pending]

NextCentroid == CentroidCall

SpecCentroid == InitCentroid /\ [][NextCentroid]_vars

-----------------------------------------------------------------------------
(* The pose prediction heads (networks.py, lines 368-490).  Feature maps   *)
(* are tensors of zeros: their entries depend on the learned weights and   *)
(* are read only through the heatmaps, which are drawn freely.             *)

MaxLen == 4

MaxKernel == 3

MaxStride == 2

MassUnits == 2

TanhDen == 2

MaxOutputs == 2

\* Input lengths: 1, and the lengths whose bin angles are multiples of pi/12
Lengths == {n \in 1..MaxLen : n = 1 \/ 12 % (n - 1) = 0}

KernelSizes == 1..MaxKernel

\* module.stride of a convolution: a pair (vstride, ustride)
Strides == (1..MaxStride) \X (1..MaxStride)

\* tanh of a learned bias: any value strictly between -1 and 1
TanhValues == {Rat(t, TanhDen) : t \in (1 - TanhDen)..(TanhDen - 1)}

\* The heatmaps a softmax can return over n bins: the masses are multiples
\* of 1 / MassUnits and sum to 1.
Softmaxes(n) == {w \in [1..n -> 0..MassUnits] : SumTo(w, n) = MassUnits}

None == <<>>

Zeros2(h, w) == [r \in 1..h |-> [c \in 1..w |-> 0]]

Zeros1(n) == [i \in 1..n |-> 0]

ConvOut(n, k, s) == ((n - k) \div s) + 1

\* nn.Conv2d(.., k, stride) and nn.Conv1d(.., k, stride=1) with no padding of
\* their own: the input must hold the kernel.
Conv2d(x, k, stride) ==
    IF Len(x) < k \/ Len(x[1]) < k THEN Raise("RuntimeError")
    ELSE Ok(Zeros2(ConvOut(Len(x), k, stride[1]), ConvOut(Len(x[1]), k, stride[2])))

Conv1d(x, k) ==
    IF Len(x) < k THEN Raise("RuntimeError") ELSE Ok(Zeros1(ConvOut(Len(x), k, 1)))

\* self.pad_mode (lines 392-394, 465-467)
PadMode(h) ==
    <<IF h.periodic_u THEN "cyclic" ELSE "constant",
      IF h.periodic_v THEN "cyclic" ELSE "constant">>

\* A padded convolution: lines 415-416, 419-420, 477-478, 481-482
PaddedConv(x, k, stride, mode) ==
    LET padded == _pad2d(x, <<k \div 2, k \div 2>>, mode)
    IN  IF IsOk(padded) THEN Conv2d(padded.val, k, stride) ELSE padded

\* A padded 1-D convolution: lines 425-426, 434-435
PaddedConv1d(x, k, mode) ==
    LET padded == _pad1d(x, k \div 2, mode)
    IN  IF IsOk(padded) THEN Conv1d(padded.val, k) ELSE padded

\* _forward with the stride components exchanged
ForwardSwapped(deltas0, stride) ==
    <<RMul(deltas0[1], <<stride[2], 1>>), RMul(deltas0[2], <<stride[1], 1>>)>>

\* The deltas returned by EquivariantPosePredictor._forward
_forward(deltas0, stride) ==
    LET vstride == stride[1]
        ustride == stride[2]
        vdelta == deltas0[1]
        udelta == deltas0[2]
    IN  <<RMul(vdelta, <<vstride, 1>>), RMul(udelta, <<ustride, 1>>)>>

NoPose == [u |-> None, v |-> None]

\* EquivariantPosePredictor.__init__
ConstructEquivariant ==
    /\ pc = "idle"
    /\ \E k \in KernelSizes, s1 \in Strides, s2 \in Strides,
          pu \in BOOLEAN, pv \in BOOLEAN, ru \in BOOLEAN, rv \in BOOLEAN :
          IF ~ru /\ ~rv
          THEN /\ pc' = "raised"
               /\ err' = "ValueError"
               /\ UNCHANGED head
          ELSE /\ pc' = "constructed"
               /\ head' = [cls |-> "EquivariantPosePredictor", kernel_size |-> k,
                           stride1 |-> s1, stride2 |-> s2,
                           periodic_u |-> pu, periodic_v |-> pv,
                           return_u |-> ru, return_v |-> rv,
                           tanh_bias_u |-> <<0, 1>>, tanh_bias_v |-> <<0, 1>>]
               /\ UNCHANGED err
    /\ UNCHANGED <<call, xshape, feat, deltas, pose, heatmaps>>

\* The learned biases are set by the training procedure.
Train ==
    /\ pc = "constructed"
    /\ head.cls = "EquivariantPosePredictor"
    /\ \E tu \in TanhValues, tv \in TanhValues :
          head' = [head EXCEPT !.tanh_bias_u = tu, !.tanh_bias_v = tv]
    /\ UNCHANGED <<call, pc, err, xshape, feat, deltas, pose, heatmaps>>

\* forward, lines 413-417
ForwardConv1 ==
    /\ pc = "constructed"
    /\ head.cls = "EquivariantPosePredictor"
    /\ \E h \in Lengths, w \in Lengths :
          LET out == PaddedConv(Zeros2(h, w), head.kernel_size, head.stride1,
                                PadMode(head))
          IN  /\ xshape' = <<h, w>>
              /\ IF h = 1 \/ w = 1
                 THEN /\ pc' = "raised"
                      /\ err' = "ZeroDivisionError"
                      /\ UNCHANGED <<feat, deltas>>
                 ELSE IF ~IsOk(out)
                 THEN /\ pc' = "raised"
                      /\ err' = out.err
                      /\ UNCHANGED <<feat, deltas>>
                 ELSE /\ pc' = "conv1"
                      /\ feat' = out.val
                      /\ deltas' = _forward(<<Rat(2, h - 1), Rat(2, w - 1)>>, head.stride1)
                      /\ UNCHANGED err
    /\ UNCHANGED <<call, head, pose, heatmaps>>

\* forward, lines 419-421
ForwardConv2 ==
    /\ pc = "conv1"
    /\ LET out == PaddedConv(feat, head.kernel_size, head.stride2, PadMode(head))
       IN  IF ~IsOk(out)
           THEN /\ pc' = "raised"
                /\ err' = out.err
                /\ UNCHANGED <<feat, deltas>>
           ELSE /\ pc' = "conv2"
                /\ feat' = out.val
                /\ deltas' = _forward(deltas, head.stride2)
                /\ UNCHANGED err
    /\ UNCHANGED <<call, head, xshape, pose, heatmaps>>

\* forward, lines 423-430
ForwardU ==
    /\ pc = "conv2"
    /\ head.return_u
    /\ LET out_u == PaddedConv1d(Zeros1(Len(feat[1])), head.kernel_size, PadMode(head)[1])
       IN  IF ~IsOk(out_u)
           THEN /\ pc' = "raised"
                /\ err' = out_u.err
                /\ UNCHANGED <<pose, heatmaps>>
           ELSE \E heatmap_u \in Softmaxes(Len(out_u.val)) :
                   /\ heatmaps' = [heatmaps EXCEPT !.u = heatmap_u]
                   /\ pose' = [pose EXCEPT !.u =
                                  VAdd(_centroid(heatmap_u, deltas[2], head.periodic_u),
                                       head.tanh_bias_u)]
                   /\ pc' = IF ~head.return_v THEN "returned" ELSE "u"
                   /\ UNCHANGED err
    /\ UNCHANGED <<call, head, xshape, feat, deltas>>

\* forward, lines 432-441
ForwardV ==
    /\ pc = "u" \/ (pc = "conv2" /\ ~head.return_u)
    /\ LET out_v == PaddedConv1d(Zeros1(Len(feat)), head.kernel_size, PadMode(head)[2])
       IN  IF ~IsOk(out_v)
           THEN /\ pc' = "raised"
                /\ err' = out_v.err
                /\ UNCHANGED <<pose, heatmaps>>
           ELSE \E heatmap_v \in Softmaxes(Len(out_v.val)) :
                   /\ heatmaps' = [heatmaps EXCEPT !.v = heatmap_v]
                   /\ pose' = [pose EXCEPT !.v =
                                  VAdd(_centroid(heatmap_v, deltas[1], head.periodic_v),
                                       head.tanh_bias_v)]
                   /\ pc' = "returned"
                   /\ UNCHANGED err
    /\ UNCHANGED <<call, head, xshape, feat, deltas>>

\* DirectPosePredictor.__init__: nn.Linear (line 474) fails on a negative
\* number of outputs; nothing else looks at num_outputs.
ConstructDirect ==
    /\ pc = "idle"
    /\ \E k \in KernelSizes, s1 \in Strides, s2 \in Strides,
          pu \in BOOLEAN, pv \in BOOLEAN, n \in (-1)..MaxOutputs :
          IF n < 0
          THEN /\ pc' = "raised"
               /\ err' = "RuntimeError"
               /\ UNCHANGED head
          ELSE /\ pc' = "constructed"
               /\ head' = [cls |-> "DirectPosePredictor", kernel_size |-> k,
                           stride1 |-> s1, stride2 |-> s2,
                           periodic_u |-> pu, periodic_v |-> pv,
                           num_outputs |-> n]
               /\ UNCHANGED err
    /\ UNCHANGED <<call, xshape, feat, deltas, pose, heatmaps>>

\* DirectPosePredictor.forward
DirectForward ==
    /\ pc = "constructed"
    /\ head.cls = "DirectPosePredictor"
    /\ \E h \in Lengths, w \in Lengths :
          LET out1 == PaddedConv(Zeros2(h, w), head.kernel_size, head.stride1,
                                 PadMode(head))
              out2 == IF IsOk(out1)
                      THEN PaddedConv(out1.val, head.kernel_size, head.stride2,
                                      PadMode(head))
                      ELSE out1
          IN  /\ xshape' = <<h, w>>
              /\ IF ~IsOk(out2)
                 THEN /\ pc' = "raised"
                      /\ err' = out2.err
                      /\ UNCHANGED <<feat, pose, heatmaps>>
                 ELSE \E out \in [1..head.num_outputs -> TanhValues] :
                         /\ pc' = "returned"
                         /\ feat' = out2.val
                         /\ pose' = IF head.num_outputs = 1 THEN out[1] ELSE out
                         /\ heatmaps' = IF head.num_outputs = 1 THEN None
                                        ELSE [i \in 1..head.num_outputs |-> None]
                         /\ UNCHANGED err
    /\ UNCHANGED <<call, head, deltas>>

Init ==
    /\ call = NoCall
    /\ pc = "idle"
    /\ head = [cls |-> "none"]
    /\ err = ""
    /\ xshape = <<>>
    /\ feat = <<>>
    /\ deltas = <<>>
    /\ pose = NoPose
    /\ heatmaps = NoPose

Next ==
    \/ ConstructEquivariant
    \/ Train
    \/ ForwardConv1
    \/ ForwardConv2
    \/ ForwardU
    \/ ForwardV
    \/ ConstructDirect
    \/ DirectForward

Spec == Init /\ [][Next]_vars

-----------------------------------------------------------------------------
(* Properties of the padding helpers, checked under SpecPad.               *)

Made == call.out.err # "pending"

PadL == call.pad[1]

PadR == call.pad[Len(call.pad)]

\* The mode and the amount of each axis of a _pad2d call, a single value
\* standing for both axes: <<axis 3, axis 2>>.
BothModes == IF Len(call.mode) = 1 THEN <<call.mode[1], call.mode[1]>> ELSE call.mode

BothPads == IF Len(call.pad) = 1 THEN <<call.pad[1], call.pad[1]>> ELSE call.pad

\* s is t extended cyclically by l entries before and r entries after.
Wraps(s, t, l, r) ==
    /\ Len(s) = l + Len(t) + r
    /\ \A j \in 1..Len(s) : s[j] = t[((j - l - 1) % Len(t)) + 1]

\* C1: for amounts (l, r) within the axis length, _cyclic_pad returns along
\* the axis the last l entries, the input, and the first r entries, in this
\* order; an int amount p stands for (p, p); with both amounts 0 the input is
\* returned; the other axis is unchanged.
C1_CyclicPadWraps ==
    (/\ call.fn = "_cyclic_pad"
     /\ Made
     /\ PadL <= Shape(call.x, call.axis)
     /\ PadR <= Shape(call.x, call.axis))
    => /\ IsOk(call.out)
       /\ IF call.axis = 2
          THEN Wraps(call.out.val, call.x, PadL, PadR)
          ELSE /\ Len(call.out.val) = Len(call.x)
               /\ \A i \in DOMAIN call.x :
                     Wraps(call.out.val[i], call.x[i], PadL, PadR)
       /\ (PadL = 0 /\ PadR = 0) => call.out.val = call.x

C1_Witness ==
    /\ call.fn = "_cyclic_pad"
    /\ Made
    /\ call.axis = 3
    /\ call.pad = <<1, 2>>
    /\ call.x = <<(<<1, 2>>), (<<2, 1>>)>>
    /\ call.out = Ok(<<(<<2, 1, 2, 1, 2>>), (<<1, 2, 1, 2, 1>>)>>)

\* C2: an axis whose mode is None is passed through by _pad1d and _pad2d
\* whatever the amount, whether the modes of _pad2d are given as a pair or as
\* one None for both axes, and the call does not fail.
C2_NonePassThrough ==
    Made =>
      /\ (call.fn = "_pad1d" /\ call.mode = <<"None">>)
            => (IsOk(call.out) /\ call.out.val = call.x)
      /\ (call.fn = "_pad2d" /\ BothModes = <<"None", "None">>)
            => (IsOk(call.out) /\ call.out.val = call.x)
      /\ (call.fn = "_pad2d" /\ BothModes[1] = "None" /\ IsOk(call.out))
            => \A i \in DOMAIN call.x : call.out.val[i + (Len(call.out.val) - Len(call.x)) \div 2] = call.x[i]
      /\ (call.fn = "_pad2d" /\ BothModes[2] = "None" /\ IsOk(call.out))
            => Len(call.out.val) = Len(call.x)

\* Some axis of the call is padded, in one of the modes ms, by more than its
\* length.
Overlong(ms) ==
    \/ /\ call.fn = "_cyclic_pad"
       /\ "cyclic" \in ms
       /\ (PadL > Shape(call.x, call.axis) \/ PadR > Shape(call.x, call.axis))
    \/ /\ call.fn = "_pad1d"
       /\ call.mode[1] \in ms
       /\ PadL > Len(call.x)
    \/ /\ call.fn = "_pad2d"
       /\ \/ BothModes[1] \in ms /\ BothPads[1] > Shape(call.x, 3)
          \/ BothModes[2] \in ms /\ BothPads[2] > Shape(call.x, 2)

\* C3 as stated: in every mode other than None, an amount greater than the
\* length of its axis makes the call raise an error.
C3_OverlongPadRaises ==
    (Made /\ Overlong(Modes \ {"None"})) => ~IsOk(call.out)

\* C3 as amended: in the modes cyclic and reflect an amount greater than the
\* length of its axis makes the call raise an error; in the modes constant and
\* replicate _pad1d returns a tensor longer by twice the amount, whatever the
\* amount.
C3_OverlongWrapRaises ==
    /\ (Made /\ Overlong({"cyclic", "reflect"})) => ~IsOk(call.out)
    /\ (Made /\ call.fn = "_pad1d" /\ call.mode[1] \in {"constant", "replicate"})
          => (IsOk(call.out) /\ Len(call.out.val) = Len(call.x) + 2 * PadL)

C3_Witness ==
    /\ call.fn = "_pad2d"
    /\ Made
    /\ call.mode = <<"constant", "cyclic">>
    /\ call.pad = <<1, 3>>
    /\ Len(call.x) = 2
    /\ call.out = Raise("RuntimeError")

-----------------------------------------------------------------------------
(* Properties of _centroid, checked under SpecCentroid.                    *)

Uniform(w) == \A i \in 1..Len(w) : w[i] = w[1] /\ w[1] > 0

\* All the mass of w lies, in equal parts, on the bins i and Len(w) + 1 - i.
SpikePair(w, i) ==
    /\ 2 * i < Len(w) + 1
    /\ w[i] > 0
    /\ w[Len(w) + 1 - i] = w[i]
    /\ \A j \in 1..Len(w) : (j # i /\ j # Len(w) + 1 - i) => w[j] = 0

\* The angle of the upper bin of the pair, in units of pi
Theta(w, i, step) == Rnge(Len(w), step)[Len(w) + 1 - i]

CentroidMade == call.fn = "_centroid" /\ Made

\* C6: the periodic centroid of a uniform heatmap is exactly 0, for every
\* number of bins and every step.
C6_UniformPeriodicZero ==
    (CentroidMade /\ call.periodic /\ Uniform(call.heatmap))
       => call.out.val = Exactly(<<0, 1>>)

\* C8 as stated: the periodic centroid of two equal spikes at the angles
\* +theta and -theta is 0, for every theta up to pi.
C8_SymmetricSpikesZero ==
    (CentroidMade /\ call.periodic)
       => \A i \in 1..Len(call.heatmap) :
             (/\ SpikePair(call.heatmap, i)
              /\ RLeq(Theta(call.heatmap, i, call.step), <<1, 1>>))
                => call.out.val = Exactly(<<0, 1>>)

\* C8 as amended: the periodic centroid of two equal spikes at the angles
\* +theta and -theta is 0 when theta is below pi/2 and 1, the wrap boundary,
\* when theta is above pi/2 and at most pi.
C8_SymmetricSpikesNearer ==
    (CentroidMade /\ call.periodic)
       => \A i \in 1..Len(call.heatmap) :
             SpikePair(call.heatmap, i)
                => LET theta == Theta(call.heatmap, i, call.step)
                   IN  /\ RLess(theta, <<1, 2>>) => call.out.val = Exactly(<<0, 1>>)
                       /\ (RLess(<<1, 2>>, theta) /\ RLeq(theta, <<1, 1>>))
                             => call.out.val = Exactly(<<1, 1>>)

C8_Witness ==
    /\ CentroidMade
    /\ call.periodic
    /\ call.heatmap = <<0, 2, 0, 2, 0>>
    /\ call.step = <<1, 3>>
    /\ call.out.val = Exactly(<<0, 1>>)

-----------------------------------------------------------------------------
(* Properties of the heads, checked under Spec.                            *)

Equivariant == head.cls = "EquivariantPosePredictor"

OddKernel == Equivariant /\ head.kernel_size % 2 = 1

\* u, respectively v, has been computed by forward.
UDone == Equivariant /\ head.return_u /\ pc \in {"u", "returned"}

VDone == Equivariant /\ head.return_v /\ pc = "returned"

\* The centroids under the returned scalars
CentroidU == VAdd(pose.u, RNeg(head.tanh_bias_u))

CentroidV == VAdd(pose.v, RNeg(head.tanh_bias_v))

\* C4: no head exists that returns neither u nor v, or that has fewer than
\* one output: such a configuration is rejected by the constructor.
C4_InvalidConfigRejected ==
    /\ Equivariant => (head.return_u \/ head.return_v)
    /\ head.cls = "DirectPosePredictor" => head.num_outputs >= 1

\* C5 as stated: every scalar returned by EquivariantPosePredictor.forward
\* lies in [-1, 1].
C5_PoseInUnitRange ==
    /\ UDone => VWithin(pose.u, <<-1, 1>>, <<1, 1>>)
    /\ VDone => VWithin(pose.v, <<-1, 1>>, <<1, 1>>)

\* C5 as amended: with an odd kernel size every scalar returned by
\* EquivariantPosePredictor.forward lies in [-2, 2], being the sum of tanh of
\* the bias and of a centroid that lies in [-1, 1].
C5_PoseInDoubleRange ==
    OddKernel =>
      /\ UDone => /\ VWithin(pose.u, <<-2, 1>>, <<2, 1>>)
                  /\ VWithin(CentroidU, <<-1, 1>>, <<1, 1>>)
      /\ VDone => /\ VWithin(pose.v, <<-2, 1>>, <<2, 1>>)
                  /\ VWithin(CentroidV, <<-1, 1>>, <<1, 1>>)

C5_Witness ==
    /\ pc = "returned"
    /\ UDone /\ VDone
    /\ OddKernel
    /\ head.periodic_u /\ ~head.periodic_v
    /\ RLess(<<1, 1>>, pose.u.lo)
    /\ RLess(pose.v.hi, <<-1, 1>>)

\* All the mass of w lies, in equal parts, on its first and its last bin,
\* and w has at least four bins.
EndSpikes(w) == Len(w) >= 4 /\ SpikePair(w, 1)

MagnitudeOne(v) == v = Exactly(<<1, 1>>) \/ v = Exactly(<<-1, 1>>)

EndSpikesAtBoundary ==
    /\ (UDone /\ EndSpikes(heatmaps.u))
          => IF head.periodic_u THEN MagnitudeOne(CentroidU)
             ELSE CentroidU = Exactly(<<0, 1>>)
    /\ (VDone /\ EndSpikes(heatmaps.v))
          => IF head.periodic_v THEN MagnitudeOne(CentroidV)
             ELSE CentroidV = Exactly(<<0, 1>>)

\* C7 as stated: with the step supplied by the head, the centroid of a
\* heatmap of at least four bins whose mass is split between the first and
\* the last bin has magnitude 1 on a periodic axis and is 0 on a linear one.
C7_EndSpikesAtBoundary == EndSpikesAtBoundary

\* C7 as amended: the same, for a head with an odd kernel size.
C7_EndSpikesAtBoundaryOdd == OddKernel => EndSpikesAtBoundary

C7_Witness ==
    /\ UDone
    /\ OddKernel
    /\ head.periodic_u
    /\ head.kernel_size = 3
    /\ heatmaps.u = <<1, 0, 0, 1>>
    /\ CentroidU = Exactly(<<1, 1>>)

\* C9: the tracked scale of each axis is 2 / (input length - 1) times the
\* product of the strides of that axis met so far: v is advanced by
\* module.stride[0] and u by module.stride[1], and two strides s1, s2 give
\* the scale of the single stride s1 * s2.
C9_ScaleIsStrideProduct ==
    Equivariant =>
      /\ pc = "conv1" =>
            deltas = <<Rat(2 * head.stride1[1], xshape[1] - 1),
                       Rat(2 * head.stride1[2], xshape[2] - 1)>>
      /\ pc \in {"conv2", "u", "returned"} =>
            /\ deltas = <<Rat(2 * (head.stride1[1] * head.stride2[1]), xshape[1] - 1),
                          Rat(2 * (head.stride1[2] * head.stride2[2]), xshape[2] - 1)>>
            /\ deltas[1][1] > 0 /\ deltas[2][1] > 0

C9_Witness ==
    /\ Equivariant
    /\ pc = "conv2"
    /\ xshape = <<3, 4>>
    /\ head.stride1 = <<1, 2>>
    /\ head.stride2 = <<2, 2>>
    /\ deltas = <<(<<2, 1>>), (<<8, 3>>)>>

\* The coordinate _centroid gives to every bin of w is the coordinate of the
\* frame of scale delta and offset 1.
AgreesWithFrame(w, delta) ==
    \A i \in 1..Len(w) :
       Rnge(Len(w), delta)[i] = RAdd(RMul(<<i - 1, 1>>, delta), <<-1, 1>>)

\* C10: with an odd kernel size, the coordinate the head gives to each bin
\* of a response map is index * scale - offset, the offset being 1 as set at
\* the input and the scale the tracked one.
C10_BinsAgreeWithFrame ==
    OddKernel =>
      /\ UDone => AgreesWithFrame(heatmaps.u, deltas[2])
      /\ VDone => AgreesWithFrame(heatmaps.v, deltas[1])

=============================================================================
